---- MODULE Spec2Model ----
(***************************************************************************)
(* Scaling policies of the Kubernetes autoscaler                            *)
(* (src/autoscaler/scaling_policy.py): ScalingPolicy, BasicScalingPolicy,   *)
(* CostBasedScalingPolicy and GrowthBasedScalingPolicy.                     *)
(*                                                                         *)
(* One decision cycle is a call of apply(pending_pods, asgs, cluster).  Its *)
(* synchronous part (the decide_num_instances calls, each group.scale and   *)
(* add_done_callback) is one action (ApplyBasic, ApplyCost, ApplyGrowth);   *)
(* apply then calls fulfill_requests (EnterFulfill), the scale operations   *)
(* complete in any order (Complete) while fulfill_requests waits on them in *)
(* list order (Wait), and apply returns (Return) or an exception leaves it  *)
(* (pc = "raised").                                                         *)
(*                                                                         *)
(* The futures returned by group.scale are taken to behave as               *)
(* concurrent.futures.Future: result() blocks until the future is done and  *)
(* re-raises its exception, and an exception raised by a done-callback is   *)
(* logged by the future and goes no further.                                *)
(*                                                                         *)
(* growth_log and alloc are not fields of the program: growth_log records   *)
(* what the latest calls of GrowthBasedScalingPolicy.apply did, and alloc   *)
(* holds one run of the allocation loop when it is run on its own, pod by   *)
(* pod, before the decision it belongs to (SpecPack).                       *)
(*                                                                         *)
(* Numbers.  Python floats are modelled by exact integer arithmetic:        *)
(*   - spent_this_hour holds 3600 times the Python value (cost-seconds),    *)
(*   - x > 0.75 * y is written 4 * x > 3 * y,                               *)
(*   - the average hours per instance is kept as the pair                   *)
(*     num_seconds_instances_used / num_instances_tracked.                  *)
(***************************************************************************)
EXTENDS Integers, Sequences, FiniteSets, TLC

VARIABLES
    policy,                      \* which subclass of ScalingPolicy this instance is
    pc,                          \* "idle" | "decided" | "fulfill" | "raised"
    pending_pods,                \* argument of apply: key -> list of pods
    asgs,                        \* argument of apply: list of groups
    cluster,                     \* argument of apply: [over_provision]
    async_operations,            \* local list of apply, with each future's state
    waited,                      \* fulfill_requests: operations whose result() returned
    clock,                       \* time.time(), seconds
    start_time,                  \* CostBasedScalingPolicy.start_time
    max_cost_per_hour,           \* CostBasedScalingPolicy.max_cost_per_hour
    num_hours,                   \* CostBasedScalingPolicy.num_hours
    spent_this_hour,             \* CostBasedScalingPolicy.spent_this_hour (x 3600)
    num_seconds_instances_used,  \* CostBasedScalingPolicy.num_seconds_instances_used
    num_instances_tracked,       \* CostBasedScalingPolicy.num_instances_tracked
    trigger_growth_factor,       \* GrowthBasedScalingPolicy.trigger_growth_factor
    num_triggers_to_provision,   \* GrowthBasedScalingPolicy.num_triggers_to_provision
    num_triggers,                \* GrowthBasedScalingPolicy.num_triggers
    last_num_pods,               \* GrowthBasedScalingPolicy.last_num_pods
    growth_log,                  \* history of the growth-triggered policy's apply calls
    alloc                        \* the allocator run on its own: its input and loop state

cycle_vars == <<pc, pending_pods, asgs, cluster, async_operations, waited>>
cost_vars == <<clock, start_time, max_cost_per_hour, num_hours, spent_this_hour,
               num_seconds_instances_used, num_instances_tracked>>
growth_vars == <<trigger_growth_factor, num_triggers_to_provision, num_triggers,
                 last_num_pods>>
vars == <<policy, cycle_vars, cost_vars, growth_vars, growth_log, alloc>>

----------------------------------------------------------------------------
(* Bounds of the model *)

\* most pods in one basic or cost-constrained cycle, over all keys
MaxPods == 2
\* largest max_size of a group
MaxCap == 2
\* the clock stops after this many hours
MaxHours == 1
\* node_terminated is called at most this often
MaxTerminated == 1

(* Program constants *)

SecondsPerHour == 3600
\* avg_hours_used_per_instance = 0.25 when nothing was tracked: 900 seconds
DefaultAvgSeconds == 900

----------------------------------------------------------------------------
(* Resource vectors (KubeResource): <<cpu, memory>> *)

ResSub(a, b) == <<a[1] - b[1], a[2] - b[2]>>

Possible(r) == r[1] >= 0 /\ r[2] >= 0

Keys == {1, 2}
InstanceTypes == {"small", "large"}

\* capacity.get_unit_capacity(group): one fresh instance of the group's type
get_unit_capacity(group) ==
    IF group.instance_type = "small" THEN <<2, 2>> ELSE <<3, 2>>

\* costs_per_hour[instance_type]['cost-per-hour'] of the policy's region
costs_per_hour(instance_type) == IF instance_type = "small" THEN 2 ELSE 4

\* group.is_taints_tolerated(pod)
is_taints_tolerated(group, pod) == (~group.tainted) \/ pod.tolerates

----------------------------------------------------------------------------
(* Helpers *)

Max(a, b) == IF a >= b THEN a ELSE b

RECURSIVE Concat(_)
\* list.extend over a list of lists
Concat(seqs) ==
    IF Len(seqs) = 0 THEN <<>> ELSE Head(seqs) \o Concat(Tail(seqs))

RECURSIVE SumLen(_, _)
\* sum(len(podlist) for podlist in pending_pods.values()), over the keys in ks
SumLen(pending, ks) ==
    IF ks = {} THEN 0
    ELSE LET k == CHOOSE x \in ks : TRUE
         IN  Len(pending[k]) + SumLen(pending, ks \ {k})

\* the orders in which a set of keys can be iterated
Orders(ks) ==
    {o \in [1..Cardinality(ks) -> ks] : \A i, j \in DOMAIN o : i # j => o[i] # o[j]}

----------------------------------------------------------------------------
(* The allocator: lines 71-88 (and 181-198) of scaling_policy.py *)

EmptyBins == [new_instance_resources |-> <<>>, assigned_pods |-> <<>>]

\* FirstFit looking at the cpu left in a bin only
FirstFit_CpuOnly(new_instance_resources, resources) ==
    LET fits == {i \in 1..Len(new_instance_resources) :
                    new_instance_resources[i][1] - resources[1] >= 0}
    IN  IF fits = {} THEN 0 ELSE CHOOSE i \in fits : \A j \in fits : i <= j

\* FirstFit taking the bin opened last among those the pod fits
FirstFit_LastBin(new_instance_resources, resources) ==
    LET fits == {i \in 1..Len(new_instance_resources) :
                    Possible(ResSub(new_instance_resources[i], resources))}
    IN  IF fits = {} THEN 0 ELSE CHOOSE i \in fits : \A j \in fits : i >= j

\* for i, instance in enumerate(new_instance_resources): the first bin the pod fits, 0 if none
FirstFit(new_instance_resources, resources) ==
    LET fits == {i \in 1..Len(new_instance_resources) :
                    Possible(ResSub(new_instance_resources[i], resources))}
    IN  IF fits = {} THEN 0 ELSE CHOOSE i \in fits : \A j \in fits : i <= j

\* one iteration of "for pod, acc in accounted_pods.items()"; acc is False for
\* every pod, because accounted_pods is never written after it is built
AllocatePod(bins, unit_capacity, group, pods, p) ==
    LET pod == pods[p]
        i == FirstFit(bins.new_instance_resources, pod.resources)
    IN  IF \/ ~Possible(ResSub(unit_capacity, pod.resources))
           \/ ~is_taints_tolerated(group, pod)
        THEN bins
        ELSE IF i # 0
        THEN [new_instance_resources |->
                  [bins.new_instance_resources EXCEPT ![i] = ResSub(@, pod.resources)],
              assigned_pods |-> [bins.assigned_pods EXCEPT ![i] = Append(@, p)]]
        ELSE [new_instance_resources |->
                  Append(bins.new_instance_resources, ResSub(unit_capacity, pod.resources)),
              assigned_pods |-> Append(bins.assigned_pods, <<p>>)]

RECURSIVE Allocate(_, _, _, _)
\* the state of the loop after the first n pods of the key's list
Allocate(unit_capacity, group, pods, n) ==
    IF n = 0 THEN EmptyBins
    ELSE AllocatePod(Allocate(unit_capacity, group, pods, n - 1),
                     unit_capacity, group, pods, n)

----------------------------------------------------------------------------
(* decide_num_instances *)

\* cluster.autoscaling_timeouts.is_timed_out(group) or group.is_timed_out()
IsTimedOut(group) == group.tracker_timed_out \/ group.timed_out

\* Skipped without the test of max_size == desired_capacity
Skipped_TimedOutOnly(group) ==
    IsTimedOut(group) /\ ~group.unschedulable_nodes

\* lines 66-69: the group is passed over
Skipped(group) ==
    /\ IsTimedOut(group) \/ group.max_size = group.desired_capacity
    /\ ~group.unschedulable_nodes

\* UnitsRequested without the ceilings: every unit needed is requested
UnitsRequested_Uncapped(group, units_needed) == units_needed

\* UnitsRequested with max_size as the ceiling of a timed-out group too
UnitsRequested_MaxSizeOnly(group, units_needed) ==
    units_needed - Max(0, units_needed - (group.max_size - group.actual_capacity))

\* lines 99-108: units_needed - unavailable_units
UnitsRequested(group, units_needed) ==
    LET unavailable_units ==
            IF IsTimedOut(group)
            THEN Max(0, units_needed - (group.desired_capacity - group.actual_capacity))
            ELSE Max(0, units_needed - (group.max_size - group.actual_capacity))
    IN  units_needed - unavailable_units

\* line 228-229: predicted_cost > self.max_cost_per_hour * 0.75 for i + 1 = n.
\* cost: [gate, spent, seconds, tracked, max]; both sides are multiplied by 3600 * tracked
PredictedOver(n, cost_per_hour, cost) ==
    IF cost.tracked > 0
    THEN 4 * (cost.tracked * cost.spent + n * cost.seconds * cost_per_hour)
            > 3 * cost.max * SecondsPerHour * cost.tracked
    ELSE 4 * (cost.spent + n * DefaultAvgSeconds * cost_per_hour)
            > 3 * cost.max * SecondsPerHour

\* lines 227-231: for i in range(units_requested): ... units_requested = i + 1; break
BudgetGate(units_requested, cost_per_hour, cost) ==
    LET over == {n \in 1..units_requested : PredictedOver(n, cost_per_hour, cost)}
    IN  IF over = {} THEN units_requested
        ELSE CHOOSE n \in over : \A m \in over : n <= m

\* group.scale(new_capacity) and add_done_callback: the operation as issued
AsyncOperation(key, g, assigned_pods, new_capacity, units_requested) ==
    [key |-> key, group |-> g, assigned_pods |-> assigned_pods,
     new_capacity |-> new_capacity, units_requested |-> units_requested,
     result |-> "pending", notified |-> <<>>]

\* DecideGroup without the test of units_needed == 0
DecideGroup_ScaleAnyway(key, g, pending, groups, over_provision, cost) ==
    LET group == groups[g]
        pods == pending[key]
        bins == Allocate(get_unit_capacity(group), group, pods, Len(pods))
        units_needed == Len(bins.new_instance_resources)
        units_requested == UnitsRequested(group, units_needed + over_provision)
        gated == IF ~cost.gate THEN units_requested
                 ELSE BudgetGate(units_requested, costs_per_hour(group.instance_type), cost)
    IN  IF Skipped(group) THEN <<>>
        ELSE <<AsyncOperation(key, g, bins.assigned_pods,
                              group.actual_capacity + gated, gated)>>

\* DecideGroup never asking for less than the group's desired capacity
DecideGroup_KeepsDesired(key, g, pending, groups, over_provision, cost) ==
    LET group == groups[g]
        pods == pending[key]
        bins == Allocate(get_unit_capacity(group), group, pods, Len(pods))
        units_needed == Len(bins.new_instance_resources)
        units_requested == UnitsRequested(group, units_needed + over_provision)
        gated == IF ~cost.gate THEN units_requested
                 ELSE BudgetGate(units_requested, costs_per_hour(group.instance_type), cost)
    IN  IF Skipped(group) \/ units_needed = 0 THEN <<>>
        ELSE <<AsyncOperation(key, g, bins.assigned_pods,
                              Max(group.desired_capacity, group.actual_capacity + gated),
                              gated)>>

\* the body of "for group in groups" for one group: no or one operation.
\* cost.gate says whether this is the cost-constrained copy of the loop
DecideGroup(key, g, pending, groups, over_provision, cost) ==
    LET group == groups[g]
        pods == pending[key]
        bins == Allocate(get_unit_capacity(group), group, pods, Len(pods))
        units_needed == Len(bins.new_instance_resources)
        units_requested == UnitsRequested(group, units_needed + over_provision)
        gated == IF ~cost.gate THEN units_requested
                 ELSE BudgetGate(units_requested, costs_per_hour(group.instance_type), cost)
    IN  IF Skipped(group) \/ units_needed = 0 THEN <<>>
        ELSE <<AsyncOperation(key, g, bins.assigned_pods,
                              group.actual_capacity + gated, gated)>>

\* utils.get_groups_for_hash(asgs, selectors_hash), as indices into asgs
get_groups_for_hash(groups, key) ==
    SelectSeq([g \in 1..Len(groups) |-> g], LAMBDA g : groups[g].key = key)

\* cluster._prioritize_groups(groups): the order the cluster gives them
prioritize_groups(gs) == gs

\* one call of decide_num_instances, apart from the hour check of the
\* cost-constrained variant: the operations it appends, in order
DecideNumInstances(order, pending, groups, over_provision, cost) ==
    Concat([k \in 1..Len(order) |->
        LET gs == prioritize_groups(get_groups_for_hash(groups, order[k]))
        IN  Concat([j \in 1..Len(gs) |->
                DecideGroup(order[k], gs[j], pending, groups, over_provision, cost)])])

----------------------------------------------------------------------------
(* What a cycle is called with *)

\* a pod that takes half a small instance, and one that takes a whole one and
\* does not tolerate taints
Pods == {[resources |-> <<1, 1>>, tolerates |-> TRUE],
         [resources |-> <<2, 2>>, tolerates |-> FALSE]}

\* the lists of 1..n pods
PodLists(n) == UNION {[1..m -> Pods] : m \in 1..n}

\* pending_pods: a dict from the keys that have pending pods to their non-empty
\* lists; the pods of key 1 vary, key 2 has no or one pod
PendingPods ==
    {<<>>}
    \cup [{1} -> PodLists(MaxPods)]
    \cup [{2} -> PodLists(1)]
    \cup {p \in [Keys -> PodLists(MaxPods)] : Len(p[2]) = 1}

\* a group as the cluster facade reports it: actual <= desired <= max_size
Groups ==
    {g \in [key : Keys, instance_type : InstanceTypes, tainted : BOOLEAN,
            actual_capacity : 0..MaxCap, desired_capacity : 0..MaxCap,
            max_size : 0..MaxCap, tracker_timed_out : BOOLEAN, timed_out : BOOLEAN,
            unschedulable_nodes : BOOLEAN] :
        g.actual_capacity <= g.desired_capacity /\ g.desired_capacity <= g.max_size}

\* a group that can always grow
Spare(key) ==
    [key |-> key, instance_type |-> "small", tainted |-> FALSE,
     actual_capacity |-> 0, desired_capacity |-> 0, max_size |-> MaxCap,
     tracker_timed_out |-> FALSE, timed_out |-> FALSE, unschedulable_nodes |-> FALSE]

\* asgs of the basic cycles: one group of key 1 in any state
Asgs == {<<g>> : g \in {h \in Groups : h.key = 1}}

\* asgs of the cost-constrained cycles: one untainted group of key 1
CostAsgs ==
    {<<g>> : g \in {h \in Groups : h.key = 1 /\ ~h.tainted /\ ~h.tracker_timed_out}}

Clusters == [over_provision : {0, 1}]

NoCost == [gate |-> FALSE]

----------------------------------------------------------------------------
(* ScalingPolicy.apply, lines 48-52: decide_num_instances once per key in
   set(pending_pods.keys()), every call appending to the same list *)

ApplyOperations(order, pending, groups, over_provision) ==
    Concat([k \in 1..Len(order) |->
        DecideNumInstances(order, pending, groups, over_provision, NoCost)])

\* line 160: (self.start_time - curr_time) / 3600 > self.num_hours
NewHour(start, curr_time, hours) == start - curr_time > hours * SecondsPerHour

RECURSIVE HourChecks(_, _)
\* lines 159-162, once per call of CostBasedScalingPolicy.decide_num_instances:
\* the policy's hours and spending after the first n calls made by one apply.
\* st: the policy's fields and the clock when apply is entered
HourChecks(n, st) ==
    IF n = 0 THEN [num_hours |-> st.num_hours, spent |-> st.spent]
    ELSE LET prev == HourChecks(n - 1, st)
         IN  IF NewHour(st.start_time, st.curr_time, prev.num_hours)
             THEN [num_hours |-> prev.num_hours + 1, spent |-> 0]
             ELSE prev

\* CostBasedScalingPolicy.apply, lines 145-146: the operations of all its calls
\* of decide_num_instances, each gated with the spending its hour check left
CostApplyOperations(order, pending, groups, over_provision, st) ==
    Concat([k \in 1..Len(order) |->
        DecideNumInstances(order, pending, groups, over_provision,
            [gate |-> TRUE, spent |-> HourChecks(k, st).spent, seconds |-> st.seconds,
             tracked |-> st.tracked, max |-> st.max])])

\* GrowthStep taking the first count after a reset as a baseline, not as growth
GrowthStep_Baseline(num_pending_pods, factor, to_provision, triggers, last) ==
    LET grew == num_pending_pods > factor * last
        receded == 4 * num_pending_pods < 3 * last
        t == IF grew THEN (IF last = 0 THEN triggers ELSE triggers + 1)
             ELSE IF receded THEN 0 ELSE triggers
        l == IF grew THEN num_pending_pods ELSE IF receded THEN 0 ELSE last
        fire == t >= to_provision
    IN  [grew |-> grew, receded |-> (~grew) /\ receded, fire |-> fire,
         num_triggers |-> IF fire THEN 0 ELSE t,
         last_num_pods |-> IF fire THEN 0 ELSE l]

\* GrowthStep forgetting the growth counted so far on every call that is not growth
GrowthStep_Consecutive(num_pending_pods, factor, to_provision, triggers, last) ==
    LET grew == num_pending_pods > factor * last
        receded == 4 * num_pending_pods < 3 * last
        t == IF grew THEN triggers + 1 ELSE 0
        l == IF grew THEN num_pending_pods ELSE IF receded THEN 0 ELSE last
        fire == t >= to_provision
    IN  [grew |-> grew, receded |-> (~grew) /\ receded, fire |-> fire,
         num_triggers |-> IF fire THEN 0 ELSE t,
         last_num_pods |-> IF fire THEN 0 ELSE l]

\* GrowthStep without the reset on a count below 75% of the count remembered
GrowthStep_NoReset(num_pending_pods, factor, to_provision, triggers, last) ==
    LET grew == num_pending_pods > factor * last
        receded == 4 * num_pending_pods < 3 * last
        t == IF grew THEN triggers + 1 ELSE triggers
        l == IF grew THEN num_pending_pods ELSE last
        fire == t >= to_provision
    IN  [grew |-> grew, receded |-> (~grew) /\ receded, fire |-> fire,
         num_triggers |-> IF fire THEN 0 ELSE t,
         last_num_pods |-> IF fire THEN 0 ELSE l]

\* GrowthStep that keeps the count remembered when the cluster is grown
GrowthStep_FireKeepsLast(num_pending_pods, factor, to_provision, triggers, last) ==
    LET grew == num_pending_pods > factor * last
        receded == 4 * num_pending_pods < 3 * last
        t == IF grew THEN triggers + 1 ELSE IF receded THEN 0 ELSE triggers
        l == IF grew THEN num_pending_pods ELSE IF receded THEN 0 ELSE last
        fire == t >= to_provision
    IN  [grew |-> grew, receded |-> (~grew) /\ receded, fire |-> fire,
         num_triggers |-> IF fire THEN 0 ELSE t,
         last_num_pods |-> l]

\* GrowthBasedScalingPolicy.apply, lines 250-263: the counters after the call
\* and whether the cluster is grown in it
GrowthStep(num_pending_pods, factor, to_provision, triggers, last) ==
    LET grew == num_pending_pods > factor * last
        receded == 4 * num_pending_pods < 3 * last
        t == IF grew THEN triggers + 1 ELSE IF receded THEN 0 ELSE triggers
        l == IF grew THEN num_pending_pods ELSE IF receded THEN 0 ELSE last
        fire == t >= to_provision
    IN  [grew |-> grew, receded |-> (~grew) /\ receded, fire |-> fire,
         num_triggers |-> IF fire THEN 0 ELSE t,
         last_num_pods |-> IF fire THEN 0 ELSE l]

----------------------------------------------------------------------------
(* Futures *)

Results == {"True", "False", "CloudError", "TimeoutError"}

\* NotifyIfScaled without the test of future.result()
NotifyIfScaled_Always(op, result) ==
    [j \in 1..Len(op.assigned_pods) |->
        [group |-> op.group, units_requested |-> op.units_requested,
         pods |-> Concat(SubSeq(op.assigned_pods, 1, j))]]

\* notify_if_scaled, lines 38-43, run when the future is done.  future.result()
\* raises in the callback for a failed future; the future discards that
NotifyIfScaled(op, result) ==
    IF result = "True"
    THEN [j \in 1..Len(op.assigned_pods) |->
            [group |-> op.group, units_requested |-> op.units_requested,
             pods |-> Concat(SubSeq(op.assigned_pods, 1, j))]]
    ELSE <<>>

\* Handled without the "except TimeoutError" clause
Handled_CloudErrorOnly(result) ==
    result \in {"True", "False"} \/ result = "CloudError"

\* fulfill_requests, lines 28-33: operation.result() returns, or raises an
\* exception that one of the except clauses takes
Handled(result) ==
    \/ result \in {"True", "False"}      \* no exception
    \/ result = "CloudError"             \* except CloudError as e
    \/ result = "TimeoutError"           \* except TimeoutError

----------------------------------------------------------------------------
(* The state machine *)

Policies == {"basic", "cost", "growth"}
MaxCosts == {2}
GrowthParams == {<<2, 3>>, <<1, 2>>, <<0, 1>>}
GrowthCounts == {0, 1, 3, 7, 15}
\* the counts of successive apply calls that the history follows from the start
Scenario == <<1, 3, 7, 15>>
Lifetimes == {1800}

\* pending pods of the growth-triggered cycles: n pods, one of them under key 2
\* when two is TRUE
GrowthPending(n, two) ==
    LET pod == [resources |-> <<1, 1>>, tolerates |-> TRUE]
    IN  IF n = 0 THEN <<>>
        ELSE IF two /\ n > 1 THEN (1 :> [i \in 1..(n - 1) |-> pod]) @@ (2 :> <<pod>>)
        ELSE (1 :> [i \in 1..n |-> pod])

\* asgs of the growth-triggered cycles: one or two groups that can grow
GrowthAsgs == {<<Spare(1)>>, <<Spare(1), Spare(2)>>}

\* before the first call
NoCalls == [num_pending_pods |-> 0, grew |-> FALSE, fired |-> FALSE,
            scenario |-> 0, run |-> 0, growths |-> 0]

\* the history after one more apply call: the call's count, whether it counted
\* as growth and whether it grew the cluster; scenario: how many calls there
\* were if their counts are the first of Scenario, else -1; run: how many of
\* the latest calls counted as growth without a break, up to to_provision;
\* growths: how many calls counted as growth since the last call that grew the
\* cluster or fell below 75% of the count remembered
Logged(log, num_pending_pods, grew, receded, fire, to_provision) ==
    [num_pending_pods |-> num_pending_pods, grew |-> grew, fired |-> fire,
     scenario |-> IF /\ log.scenario >= 0 /\ log.scenario < Len(Scenario)
                     /\ Scenario[log.scenario + 1] = num_pending_pods
                  THEN log.scenario + 1 ELSE -1,
     run |-> IF ~grew THEN 0
             ELSE IF log.run < to_provision THEN log.run + 1 ELSE log.run,
     growths |-> LET since == IF log.fired THEN 0 ELSE log.growths
                 IN  IF grew THEN since + 1 ELSE IF receded THEN 0 ELSE since]

\* the allocator is not run on its own
NoAlloc == [group |-> Spare(1), pods |-> <<>>, n |-> 0, bins |-> EmptyBins]

\* a policy object as its constructor leaves it, and no cycle under way
Constructed ==
    /\ pc = "idle"
    /\ pending_pods = <<>>
    /\ asgs = <<>>
    /\ cluster = [over_provision |-> 0]
    /\ async_operations = <<>>
    /\ waited = 0
    /\ clock = 0
    /\ start_time = 0
    /\ max_cost_per_hour \in (IF policy = "cost" THEN MaxCosts ELSE {0})
    /\ num_hours = 0
    /\ spent_this_hour = 0
    /\ num_seconds_instances_used = 0
    /\ num_instances_tracked = 0
    /\ \E gp \in (IF policy = "growth" THEN GrowthParams ELSE {<<0, 0>>}) :
          /\ trigger_growth_factor = gp[1]
          /\ num_triggers_to_provision = gp[2]
    /\ num_triggers = 0
    /\ last_num_pods = 0
    /\ growth_log = NoCalls

Init ==
    /\ policy \in Policies
    /\ Constructed
    /\ alloc = NoAlloc

\* the synchronous part of apply has run: every operation is issued
Decided(pending, groups, cl, ops) ==
    /\ pending_pods' = pending
    /\ asgs' = groups
    /\ cluster' = cl
    /\ async_operations' = ops
    /\ waited' = 0
    /\ pc' = "decided"

\* ScalingPolicy.apply (BasicScalingPolicy)
ApplyBasic ==
    /\ policy = "basic"
    /\ pc = "idle"
    /\ \E pending \in PendingPods, groups \in Asgs, cl \in Clusters :
       \E order \in Orders(DOMAIN pending) :
          Decided(pending, groups, cl,
                  ApplyOperations(order, pending, groups, cl.over_provision))
    /\ UNCHANGED <<policy, alloc, cost_vars, growth_vars, growth_log>>

\* CostBasedScalingPolicy.apply
ApplyCost ==
    /\ policy = "cost"
    /\ pc = "idle"
    /\ \E pending \in PendingPods, groups \in CostAsgs, cl \in Clusters :
       \E order \in Orders(DOMAIN pending) :
          LET st == [start_time |-> start_time, curr_time |-> clock,
                     num_hours |-> num_hours, spent |-> spent_this_hour,
                     seconds |-> num_seconds_instances_used,
                     tracked |-> num_instances_tracked, max |-> max_cost_per_hour]
          IN  /\ Decided(pending, groups, cl,
                          CostApplyOperations(order, pending, groups,
                                              cl.over_provision, st))
              /\ num_hours' = HourChecks(Len(order), st).num_hours
              /\ spent_this_hour' = HourChecks(Len(order), st).spent
    /\ UNCHANGED <<policy, alloc, clock, start_time, max_cost_per_hour,
                   num_seconds_instances_used, num_instances_tracked,
                   growth_vars, growth_log>>

\* CostBasedScalingPolicy.node_terminated(creation_time, instance_type), with
\* time_used_by_instance = time.time() - creation_time_epoch
NodeTerminated ==
    /\ policy = "cost"
    /\ pc = "idle"
    /\ num_instances_tracked < MaxTerminated
    /\ \E instance_type \in InstanceTypes, time_used_by_instance \in Lifetimes :
          /\ num_seconds_instances_used' =
                num_seconds_instances_used + time_used_by_instance
          /\ num_instances_tracked' = num_instances_tracked + 1
          /\ spent_this_hour' =
                spent_this_hour + costs_per_hour(instance_type) * time_used_by_instance
    /\ UNCHANGED <<policy, alloc, cycle_vars, clock, start_time, max_cost_per_hour,
                   num_hours, growth_vars, growth_log>>

\* an hour of wall-clock time passes
Tick ==
    /\ policy = "cost"
    /\ pc = "idle"
    /\ clock < start_time + MaxHours * SecondsPerHour
    /\ clock' = clock + SecondsPerHour
    /\ UNCHANGED <<policy, alloc, cycle_vars, start_time, max_cost_per_hour, num_hours,
                   spent_this_hour, num_seconds_instances_used,
                   num_instances_tracked, growth_vars, growth_log>>

\* GrowthBasedScalingPolicy.apply
ApplyGrowth ==
    /\ policy = "growth"
    /\ pc = "idle"
    /\ \E n \in GrowthCounts, two \in BOOLEAN, groups \in GrowthAsgs, cl \in Clusters :
       \E order \in Orders(DOMAIN GrowthPending(n, two)) :
          LET pending == GrowthPending(n, two)
              num_pending_pods == SumLen(pending, DOMAIN pending)
              r == GrowthStep(num_pending_pods, trigger_growth_factor,
                              num_triggers_to_provision, num_triggers, last_num_pods)
          IN  /\ num_triggers' = r.num_triggers
              /\ last_num_pods' = r.last_num_pods
              /\ growth_log' = Logged(growth_log, num_pending_pods, r.grew, r.receded,
                                       r.fire, num_triggers_to_provision)
              /\ IF r.fire
                 THEN Decided(pending, groups, cl,
                              ApplyOperations(order, pending, groups, cl.over_provision))
                 ELSE UNCHANGED cycle_vars
    /\ UNCHANGED <<policy, alloc, cost_vars, trigger_growth_factor, num_triggers_to_provision>>

\* apply calls self.fulfill_requests(async_operations): only the list is passed on
EnterFulfill ==
    /\ pc = "decided"
    /\ pc' = "fulfill"
    /\ pending_pods' = <<>>
    /\ asgs' = <<>>
    /\ cluster' = [over_provision |-> 0]
    /\ UNCHANGED <<policy, alloc, async_operations, waited, cost_vars, growth_vars, growth_log>>

\* the provider finishes scale operation i with some result; its done-callback runs
Complete ==
    /\ pc = "fulfill"
    /\ \E i \in 1..Len(async_operations), result \in Results :
          /\ async_operations[i].result = "pending"
          /\ async_operations' =
                [async_operations EXCEPT
                    ![i].result = result,
                    ![i].notified = NotifyIfScaled(async_operations[i], result)]
    /\ UNCHANGED <<policy, alloc, pc, pending_pods, asgs, cluster, waited,
                   cost_vars, growth_vars, growth_log>>

\* Wait with a result() that does not block on a future that is not done
Wait_NoBlock ==
    /\ pc = "fulfill"
    /\ waited < Len(async_operations)
    /\ waited' = waited + 1
    /\ UNCHANGED <<policy, alloc, pc, pending_pods, asgs, cluster, async_operations,
                   cost_vars, growth_vars, growth_log>>

\* fulfill_requests: operation.result() of the next operation returns or raises
Wait ==
    /\ pc = "fulfill"
    /\ waited < Len(async_operations)
    /\ async_operations[waited + 1].result # "pending"
    /\ IF Handled(async_operations[waited + 1].result)
       THEN waited' = waited + 1 /\ pc' = pc
       ELSE waited' = waited /\ pc' = "raised"
    /\ UNCHANGED <<policy, alloc, pending_pods, asgs, cluster, async_operations,
                   cost_vars, growth_vars, growth_log>>

\* fulfill_requests and apply return
Return ==
    /\ pc = "fulfill"
    /\ waited = Len(async_operations)
    /\ pc' = "idle"
    /\ async_operations' = <<>>
    /\ waited' = 0
    /\ UNCHANGED <<policy, alloc, pending_pods, asgs, cluster, cost_vars, growth_vars, growth_log>>

Next ==
    \/ ApplyBasic
    \/ ApplyCost
    \/ ApplyGrowth
    \/ NodeTerminated
    \/ Tick
    \/ EnterFulfill
    \/ Complete
    \/ Wait
    \/ Return

Spec == Init /\ [][Next]_vars

----------------------------------------------------------------------------
(* Properties *)

\* the operations issued in this cycle for key and group g
IssuedFor(key, g) ==
    {i \in 1..Len(async_operations) :
        async_operations[i].key = key /\ async_operations[i].group = g}

\* the bins the allocator makes for key in group g of this cycle
BinsFor(key, g) ==
    Allocate(get_unit_capacity(asgs[g]), asgs[g], pending_pods[key],
             Len(pending_pods[key]))

\* g is a candidate group of key that is not passed over and gets a bin
Eligible(key, g) ==
    /\ asgs[g].key = key
    /\ ~Skipped(asgs[g])
    /\ Len(BinsFor(key, g).new_instance_resources) > 0

\* C1: every scale request of every policy asks for a capacity between the
\* group's actual capacity and its max_size
C1_RequestWithinBounds ==
    pc = "decided" =>
        \A i \in 1..Len(async_operations) :
            LET op == async_operations[i]
                group == asgs[op.group]
            IN  /\ group.actual_capacity <= op.new_capacity
                /\ op.new_capacity <= group.max_size

\* C1 witness: the cost-constrained policy issued a request that the group's
\* max_size cut short
C1_Witness ==
    /\ pc = "decided"
    /\ policy = "cost"
    /\ \E i \in 1..Len(async_operations) :
          LET op == async_operations[i]
              group == asgs[op.group]
          IN  /\ Len(op.assigned_pods) + cluster.over_provision
                    > group.max_size - group.actual_capacity
              /\ op.new_capacity = group.max_size
              /\ op.units_requested > 0

\* C2 (as claimed): in one cycle exactly one scale operation is issued for
\* every key and every eligible candidate group of that key
C2_OncePerKeyAndGroup ==
    pc = "decided" =>
        \A key \in DOMAIN pending_pods :
            \A g \in 1..Len(asgs) :
                Eligible(key, g) => Cardinality(IssuedFor(key, g)) = 1

\* C3 (as claimed): a successful operation's callback calls notify_scale once,
\* with the group, the units requested and all pods of all bins
C3_NotifiedOnceWithAllPods ==
    \A i \in 1..Len(async_operations) :
        LET op == async_operations[i]
        IN  op.result = "True" =>
                op.notified = <<[group |-> op.group,
                                 units_requested |-> op.units_requested,
                                 pods |-> Concat(op.assigned_pods)]>>

\* the growth-triggered policy with growthFactor = 2 and triggersToProvision = 3
\* has been called with the first counts of 1, 3, 7, 15 and nothing else
InScenario ==
    /\ policy = "growth"
    /\ trigger_growth_factor = 2
    /\ num_triggers_to_provision = 3
    /\ growth_log.scenario \in 1..Len(Scenario)

\* C4 (as claimed): over the counts 1, 3, 7, 15 scale operations are issued
\* at the 4th call and at no earlier call
C4_ScalesAtFourthCall ==
    InScenario => (growth_log.fired <=> growth_log.scenario = 4)

\* C4 (amended): over the counts 1, 3, 7, 15 scale operations are issued at
\* the 3rd call and at no other call
C4_ScalesAtThirdCall ==
    InScenario =>
        /\ growth_log.fired <=> growth_log.scenario = 3
        /\ pc # "idle" => growth_log.scenario = 3
        /\ pc = "decided" => Len(async_operations) > 0

\* C4 witness: the 4th call, with count 15, has been made
C4_Witness == InScenario /\ growth_log.scenario = 4

\* the largest n <= r whose predicted cost stays within 75% of the budget
LargestWithinBudget(r, cost_per_hour, cost) ==
    LET within == {n \in 0..r : ~PredictedOver(n, cost_per_hour, cost)}
    IN  IF within = {} THEN 0 ELSE CHOOSE n \in within : \A m \in within : m <= n

\* C5 (as claimed): the gated units_requested is the largest n <= R with
\* spent + n * avg hours * cost per hour <= 0.75 * max_cost_per_hour
C5_GateIsLargestWithinBudget ==
    (pc = "decided" /\ policy = "cost") =>
        \A i \in 1..Len(async_operations) :
            LET op == async_operations[i]
                group == asgs[op.group]
                r == UnitsRequested(group,
                        Len(op.assigned_pods) + cluster.over_provision)
                cost == [gate |-> TRUE, spent |-> spent_this_hour,
                         seconds |-> num_seconds_instances_used,
                         tracked |-> num_instances_tracked,
                         max |-> max_cost_per_hour]
            IN  op.units_requested =
                    LargestWithinBudget(r, costs_per_hour(group.instance_type), cost)

\* C6 (as claimed): a decision made when the whole hours since the start exceed
\* num_hours increments num_hours and resets spent_this_hour
C6_NewHourResetsSpending ==
    [][(/\ policy = "cost"
        /\ pc = "idle"
        /\ pc' = "decided"
        /\ DOMAIN pending_pods' # {}
        /\ (clock - start_time) \div SecondsPerHour > num_hours)
       => (num_hours' > num_hours /\ spent_this_hour' = 0)]_vars

\* C7: no provider error and no timeout leaves fulfill_requests, and it waits
\* on the operations one after the other whatever their outcomes
C7_FailuresContained ==
    /\ pc # "raised"
    /\ pc = "fulfill" =>
          /\ waited <= Len(async_operations)
          /\ \A i \in 1..waited : async_operations[i].result # "pending"

\* C7 witness: apply is about to return after waiting on several operations
\* of which the first failed with a provider error and another timed out
C7_Witness ==
    /\ pc = "fulfill"
    /\ Len(async_operations) >= 2
    /\ waited = Len(async_operations)
    /\ async_operations[1].result = "CloudError"
    /\ \E i \in 2..Len(async_operations) : async_operations[i].result = "TimeoutError"

\* C8: notify_scale is called only by an operation that succeeded, and for
\* that operation's group
C8_NotifiedOnlyOnSuccess ==
    \A i \in 1..Len(async_operations) :
        LET op == async_operations[i]
        IN  \A j \in 1..Len(op.notified) :
                op.result = "True" /\ op.notified[j].group = op.group

\* C8 witness: of two operations on one group, one failed without a
\* notification, one returned a false result without one, or one succeeded
C8_Witness ==
    \E i, j \in 1..Len(async_operations) :
        /\ async_operations[i].group = async_operations[j].group
        /\ async_operations[i].result \in {"CloudError", "TimeoutError", "False"}
        /\ async_operations[i].notified = <<>>
        /\ async_operations[j].result = "True"
        /\ async_operations[j].notified # <<>>

\* C9 (as claimed): the cluster is grown in a call only if that call and the
\* num_triggers_to_provision - 1 calls right before it all counted as growth
C9_OnlyConsecutiveGrowth ==
    (policy = "growth" /\ growth_log.fired) =>
        growth_log.run >= num_triggers_to_provision

\* C9 (amended): the cluster is grown in a call exactly if that call counts as
\* growth and is the num_triggers_to_provision-th such call since the last call
\* that grew the cluster or fell below 75% of the remembered count; calls in
\* between that do neither leave the growth counted so far as it is
C9_GrowthSinceReset ==
    policy = "growth" =>
        /\ growth_log.fired <=>
              (growth_log.grew /\ growth_log.growths = num_triggers_to_provision)
        /\ growth_log.growths <= num_triggers_to_provision
        /\ (~growth_log.fired) => num_triggers = growth_log.growths

\* C9 witness: the cluster was grown although the call before did not count
\* as growth
C9_Witness ==
    /\ policy = "growth"
    /\ growth_log.fired
    /\ num_triggers_to_provision > 1
    /\ growth_log.run < num_triggers_to_provision

----------------------------------------------------------------------------
(* The allocator on its own: the loop of lines 74-88 for one group and the
   pod list of one key, one pod per step, followed by the one call of
   decide_num_instances that the loop belongs to *)

PackPods == [resources : {<<1, 1>>, <<2, 1>>, <<1, 2>>, <<3, 1>>}, tolerates : BOOLEAN]

PackPodLists == {<<>>} \cup UNION {[1..m -> PackPods] : m \in 1..(MaxPods + 1)}

\* groups that are not timed out and have nothing launching: any type and
\* taint, with max_size MaxCap and any actual capacity, or empty with a
\* max_size of 10, far above what its pods need
PackGroups ==
    {[Spare(1) EXCEPT !.instance_type = t, !.tainted = b,
                      !.actual_capacity = a, !.desired_capacity = a] :
        t \in InstanceTypes, b \in BOOLEAN, a \in 0..MaxCap}
    \cup {[Spare(1) EXCEPT !.instance_type = t, !.tainted = b,
                           !.max_size = 10] :
            t \in InstanceTypes, b \in BOOLEAN}

InitPack ==
    /\ policy = "basic"
    /\ Constructed
    /\ alloc \in [group : PackGroups, pods : PackPodLists, n : {0}, bins : {EmptyBins}]

\* one iteration of "for pod, acc in accounted_pods.items()"
AllocateNext ==
    /\ pc = "idle"
    /\ alloc.n < Len(alloc.pods)
    /\ alloc' = [alloc EXCEPT
                    !.n = @ + 1,
                    !.bins = AllocatePod(alloc.bins, get_unit_capacity(alloc.group),
                                         alloc.group, alloc.pods, alloc.n + 1)]
    /\ UNCHANGED <<policy, cycle_vars, cost_vars, growth_vars, growth_log>>

\* the loop is over: one call of ScalingPolicy.decide_num_instances for the one
\* key and the one group, lines 56-113
DecidePack ==
    /\ pc = "idle"
    /\ alloc.n = Len(alloc.pods)
    /\ \E cl \in Clusters :
          LET pending == (1 :> alloc.pods)
              groups == <<alloc.group>>
          IN  Decided(pending, groups, cl,
                      DecideNumInstances(<<1>>, pending, groups, cl.over_provision, NoCost))
    /\ UNCHANGED <<policy, alloc, cost_vars, growth_vars, growth_log>>

NextPack ==
    \/ AllocateNext
    \/ DecidePack

SpecPack == InitPack /\ [][NextPack]_vars

RECURSIVE SumResources(_, _)
\* the summed resources of the pods with the indices in the list ps
SumResources(pods, ps) ==
    IF Len(ps) = 0 THEN <<0, 0>>
    ELSE LET r == pods[Head(ps)].resources
             rest == SumResources(pods, Tail(ps))
         IN  <<r[1] + rest[1], r[2] + rest[2]>>

\* C10: after every assignment every bin's residual is feasible, the pods of a
\* bin together need no more than one unit capacity in any dimension, and no
\* pod is in a bin of a group that does not tolerate its taints
C10_BinsFeasible ==
    LET unit_capacity == get_unit_capacity(alloc.group)
        instances == alloc.bins.new_instance_resources
        assigned == alloc.bins.assigned_pods
    IN  /\ Len(instances) = Len(assigned)
        /\ \A b \in 1..Len(assigned) :
              LET used == SumResources(alloc.pods, assigned[b])
              IN  /\ instances[b][1] >= 0 /\ instances[b][2] >= 0
                  /\ used[1] <= unit_capacity[1] /\ used[2] <= unit_capacity[2]
                  /\ instances[b] = <<unit_capacity[1] - used[1],
                                      unit_capacity[2] - used[2]>>
                  /\ Len(assigned[b]) > 0
                  /\ \A j \in 1..Len(assigned[b]) :
                        /\ assigned[b][j] \in 1..alloc.n
                        /\ alloc.group.tainted => alloc.pods[assigned[b][j]].tolerates

\* C10 witness: a tainted group's pass over three pods is over; one pod was
\* left out for its taint, and the other two are in two bins although the
\* first bin had the cpu for the second of them
C10_Witness ==
    /\ alloc.n = Len(alloc.pods)
    /\ alloc.n = 3
    /\ alloc.group.tainted
    /\ \E p \in 1..alloc.n : ~alloc.pods[p].tolerates
    /\ Len(alloc.bins.assigned_pods) = 2
    /\ alloc.bins.new_instance_resources[1][1]
          >= alloc.pods[alloc.bins.assigned_pods[2][1]].resources[1]

Min(a, b) == IF a <= b THEN a ELSE b

\* the pods in the list bin and pod p together need no more than one unit
RefFits(unit_capacity, pods, bin, p) ==
    LET used == SumResources(pods, bin)
        r == pods[p].resources
    IN  used[1] + r[1] <= unit_capacity[1] /\ used[2] + r[2] <= unit_capacity[2]

RECURSIVE ReferenceFirstFit(_, _, _, _)
\* reference first-fit over the first n pods, as lists of pod indices: an
\* eligible pod goes to the lowest-index bin whose pods leave room for it, a
\* new bin is opened only when there is none, an ineligible pod is passed over
ReferenceFirstFit(unit_capacity, group, pods, n) ==
    IF n = 0 THEN <<>>
    ELSE LET prev == ReferenceFirstFit(unit_capacity, group, pods, n - 1)
             r == pods[n].resources
             eligible == /\ r[1] <= unit_capacity[1] /\ r[2] <= unit_capacity[2]
                         /\ group.tainted => pods[n].tolerates
             fitting == {b \in 1..Len(prev) : RefFits(unit_capacity, pods, prev[b], n)}
         IN  IF ~eligible THEN prev
             ELSE IF fitting = {} THEN Append(prev, <<n>>)
             ELSE LET b == CHOOSE x \in fitting : \A y \in fitting : x <= y
                  IN  [prev EXCEPT ![b] = Append(@, n)]

\* C11: the allocator's bins and their pod lists are those of the reference
\* first-fit after every pod, and the request issued for a group that is not
\* timed out asks for actual_capacity +
\* min(bin count + over_provision, max_size - actual_capacity)
C11_FirstFitAndRequest ==
    LET unit_capacity == get_unit_capacity(alloc.group)
        reference == ReferenceFirstFit(unit_capacity, alloc.group, alloc.pods, alloc.n)
    IN  /\ alloc.bins.assigned_pods = reference
        /\ pc = "decided" =>
              \A i \in 1..Len(async_operations) :
                  LET op == async_operations[i]
                      group == asgs[op.group]
                  IN  /\ op.assigned_pods = reference
                      /\ ~IsTimedOut(group) =>
                            op.new_capacity =
                                group.actual_capacity
                                + Min(Len(reference) + cluster.over_provision,
                                      group.max_size - group.actual_capacity)

\* C11 witness: three pods of cpu 1 on an empty group with unit cpu 2,
\* max_size 10 and no over-provision: bins [pod1, pod2], [pod3] and one scale
\* call to capacity 2
C11_Witness ==
    /\ pc = "decided"
    /\ Len(alloc.pods) = 3
    /\ \A p \in 1..3 : alloc.pods[p].resources[1] = 1
    /\ get_unit_capacity(alloc.group)[1] = 2
    /\ alloc.group.actual_capacity = 0
    /\ alloc.group.max_size = 10
    /\ cluster.over_provision = 0
    /\ Len(async_operations) = 1
    /\ async_operations[1].assigned_pods = <<<<1, 2>>, <<3>>>>
    /\ async_operations[1].new_capacity = 2

\* C12: no operation is issued for a group without unschedulable nodes that is
\* timed out or has desired_capacity == max_size, and a group with
\* unschedulable nodes that gets a bin is issued an operation whatever its
\* timeouts and its desired capacity
C12_SkipRule ==
    pc = "decided" =>
        /\ \A i \in 1..Len(async_operations) :
              LET group == asgs[async_operations[i].group]
              IN  \/ group.unschedulable_nodes
                  \/ /\ ~group.tracker_timed_out
                     /\ ~group.timed_out
                     /\ group.desired_capacity # group.max_size
        /\ \A key \in DOMAIN pending_pods :
              \A g \in 1..Len(asgs) :
                  (/\ asgs[g].key = key
                   /\ asgs[g].unschedulable_nodes
                   /\ Len(BinsFor(key, g).new_instance_resources) > 0)
                  => IssuedFor(key, g) # {}

\* C12 witness: an operation was issued for a group with unschedulable nodes
\* that is timed out and has desired_capacity == max_size
C12_Witness ==
    /\ pc = "decided"
    /\ \E i \in 1..Len(async_operations) :
          LET group == asgs[async_operations[i].group]
          IN  /\ group.unschedulable_nodes
              /\ group.tracker_timed_out
              /\ group.desired_capacity = group.max_size

\* C13: apply returns only when every operation issued in the cycle is
\* resolved, in whatever order the operations complete, and it does not
\* leave earlier by an exception
C13_ReturnsAfterAllResolved ==
    [][(pc \in {"decided", "fulfill"} /\ pc' \notin {"decided", "fulfill"})
       => /\ pc' = "idle"
          /\ waited = Len(async_operations)
          /\ \A i \in 1..Len(async_operations) :
                async_operations[i].result # "pending"]_vars

\* C13 witness: apply is about to return from a cycle of three or more
\* operations, of which one succeeded, one failed and one timed out
C13_Witness ==
    /\ pc = "fulfill"
    /\ Len(async_operations) >= 3
    /\ waited = Len(async_operations)
    /\ \E i, j, k \in 1..Len(async_operations) :
          /\ async_operations[i].result = "True"
          /\ async_operations[j].result = "CloudError"
          /\ async_operations[k].result = "TimeoutError"

\* a step is a call of GrowthBasedScalingPolicy.apply that changes the
\* policy's counters or its history
GrowthCall ==
    /\ policy = "growth"
    /\ pc = "idle"
    /\ <<num_triggers, last_num_pods, growth_log>>'
          # <<num_triggers, last_num_pods, growth_log>>

\* C14: an apply call of the growth-triggered policy whose count is not above
\* trigger_growth_factor * last_num_pods and is below 75% of last_num_pods
\* leaves num_triggers = 0 and last_num_pods = 0
C14_RecedeResets ==
    [][(/\ GrowthCall
        /\ ~(growth_log'.num_pending_pods > trigger_growth_factor * last_num_pods)
        /\ 4 * growth_log'.num_pending_pods < 3 * last_num_pods)
       => (num_triggers' = 0 /\ last_num_pods' = 0)]_vars

\* C14 witness: the latest call had pending pods, did not count as growth and
\* did not grow the cluster, and the counters are 0 after it: its count was
\* below 75% of a count remembered from earlier growth
C14_Witness ==
    /\ policy = "growth"
    /\ num_triggers_to_provision > 1
    /\ growth_log.num_pending_pods > 0
    /\ ~growth_log.grew
    /\ ~growth_log.fired
    /\ num_triggers = 0
    /\ last_num_pods = 0

\* pod p of the list fits one unit of the group on its own and is tolerated
PodEligible(group, pods, p) ==
    LET unit_capacity == get_unit_capacity(group)
        r == pods[p].resources
    IN  /\ r[1] <= unit_capacity[1] /\ r[2] <= unit_capacity[2]
        /\ group.tainted => pods[p].tolerates

\* C15: a group for which no pending pod of the key fits a unit on its own and
\* is tolerated gets no bin and no scale request, with or without
\* over-provision, and the decision ends normally
C15_NoBinsNoRequest ==
    (\A p \in 1..alloc.n : ~PodEligible(alloc.group, alloc.pods, p)) =>
        /\ alloc.bins = EmptyBins
        /\ pc # "raised"
        /\ (pc = "decided" /\ alloc.n = Len(alloc.pods)) => async_operations = <<>>

\* C15 witness: a tainted group with room to grow was decided with
\* over-provision 1 for a pod that is too large and a pod that does not
\* tolerate it, and nothing was requested
C15_Witness ==
    /\ pc = "decided"
    /\ cluster.over_provision = 1
    /\ alloc.group.desired_capacity < alloc.group.max_size
    /\ alloc.group.tainted
    /\ Len(alloc.pods) = 2
    /\ ~Possible(ResSub(get_unit_capacity(alloc.group), alloc.pods[1].resources))
    /\ alloc.pods[1].tolerates
    /\ Possible(ResSub(get_unit_capacity(alloc.group), alloc.pods[2].resources))
    /\ ~alloc.pods[2].tolerates
    /\ async_operations = <<>>

\* C16: a request for a group that is timed out (and processed because of its
\* unschedulable nodes) asks for no more than the group's desired capacity;
\* the units requested are min(units needed, desired - actual), which the
\* budget loop of the cost-constrained policy can only lower
C16_TimedOutWithinDesired ==
    pc = "decided" =>
        \A i \in 1..Len(async_operations) :
            LET op == async_operations[i]
                group == asgs[op.group]
                committed == Min(Len(op.assigned_pods) + cluster.over_provision,
                                 group.desired_capacity - group.actual_capacity)
            IN  (group.tracker_timed_out \/ group.timed_out) =>
                    /\ group.unschedulable_nodes
                    /\ op.new_capacity <= group.desired_capacity
                    /\ op.units_requested <= committed
                    /\ policy # "cost" => op.units_requested = committed

\* C16 witness: a timed-out group with unschedulable nodes needs more units
\* than it has launching, and is asked for its desired capacity, below max_size
C16_Witness ==
    /\ pc = "decided"
    /\ \E i \in 1..Len(async_operations) :
          LET op == async_operations[i]
              group == asgs[op.group]
          IN  /\ group.timed_out
              /\ group.unschedulable_nodes
              /\ group.actual_capacity < group.desired_capacity
              /\ group.desired_capacity < group.max_size
              /\ Len(op.assigned_pods) + cluster.over_provision
                    > group.desired_capacity - group.actual_capacity
              /\ op.new_capacity = group.desired_capacity

\* C17 (as claimed): once spent_this_hour is over 75% of max_cost_per_hour,
\* every request of the cost-constrained policy is for 0 units, that is for
\* the group's actual capacity
C17_NoProvisioningOverBudget ==
    (/\ pc = "decided"
     /\ policy = "cost"
     /\ 4 * spent_this_hour > 3 * max_cost_per_hour * SecondsPerHour) =>
        \A i \in 1..Len(async_operations) :
            LET op == async_operations[i]
            IN  /\ op.units_requested = 0
                /\ op.new_capacity = asgs[op.group].actual_capacity

\* C18: with trigger_growth_factor >= 0 and num_triggers_to_provision >= 1,
\* after every apply call of the growth-triggered policy
\* 0 <= num_triggers < num_triggers_to_provision, and num_triggers = 0 exactly
\* if last_num_pods = 0; a cycle of scale operations is run exactly in a call
\* in which the count of growth reached num_triggers_to_provision, both
\* counters are 0 after such a call, and it issues operations when a group
\* is eligible
C18_GrowthState ==
    (policy = "growth" /\ trigger_growth_factor >= 0 /\ num_triggers_to_provision >= 1) =>
        /\ 0 <= num_triggers /\ num_triggers < num_triggers_to_provision
        /\ num_triggers = 0 <=> last_num_pods = 0
        /\ growth_log.fired <=>
              (growth_log.grew /\ growth_log.growths >= num_triggers_to_provision)
        /\ growth_log.fired => (num_triggers = 0 /\ last_num_pods = 0)
        /\ (pc # "idle" \/ async_operations # <<>>) => growth_log.fired
        /\ pc = "decided" =>
              /\ growth_log.num_pending_pods = SumLen(pending_pods, DOMAIN pending_pods)
              /\ (\E key \in DOMAIN pending_pods, g \in 1..Len(asgs) : Eligible(key, g))
                    => async_operations # <<>>

\* C18 witness: with num_triggers_to_provision = 3 the third growth since the
\* last reset has just grown the cluster, and both counters are back at 0
C18_Witness ==
    /\ policy = "growth"
    /\ num_triggers_to_provision = 3
    /\ growth_log.fired
    /\ growth_log.growths = 3
    /\ pc = "decided"
    /\ async_operations # <<>>
    /\ num_triggers = 0
    /\ last_num_pods = 0

\* C19 (as claimed): every scale request asks for at least the group's
\* current desired capacity
C19_NeverBelowDesired ==
    pc = "decided" =>
        \A i \in 1..Len(async_operations) :
            async_operations[i].new_capacity
                >= asgs[async_operations[i].group].desired_capacity

\* C19 (amended): every scale request asks for the group's actual capacity
\* plus the units requested, never less than the actual capacity; it reaches
\* the current desired capacity only if the units needed (bins plus
\* over-provision) cover what is launching, desired - actual, and in the
\* basic and growth-triggered policies exactly then
C19_CountsFromActual ==
    pc = "decided" =>
        \A i \in 1..Len(async_operations) :
            LET op == async_operations[i]
                group == asgs[op.group]
                units_needed == Len(op.assigned_pods) + cluster.over_provision
                launching == group.desired_capacity - group.actual_capacity
            IN  /\ op.units_requested >= 0
                /\ op.new_capacity = group.actual_capacity + op.units_requested
                /\ op.new_capacity >= group.desired_capacity => units_needed >= launching
                /\ (policy # "cost" /\ units_needed >= launching)
                      => op.new_capacity >= group.desired_capacity

\* C19 witness: a group with instances launching is asked for a capacity
\* below its desired capacity
C19_Witness ==
    /\ pc = "decided"
    /\ \E i \in 1..Len(async_operations) :
          LET op == async_operations[i]
              group == asgs[op.group]
          IN  /\ group.actual_capacity < group.desired_capacity
              /\ ~group.tracker_timed_out /\ ~group.timed_out
              /\ op.units_requested > 0
              /\ op.new_capacity < group.desired_capacity

====
